---------------------------- MODULE Spec2Model ----------------------------
(***************************************************************************)
(* lf.DiffCalculator (lib/diff_calculator.js): detects the difference      *)
(* between the old and the new results of an observed query and applies it *)
(* to the observed array with Array.prototype.splice.                      *)
(*                                                                         *)
(* Array indices are 0-based as in the source; a TLA+ sequence s holds the *)
(* JavaScript element s[k] at s[k + 1].  A nullable reference is a         *)
(* sequence of length 0 (null) or 1 (the object).                          *)
(***************************************************************************)
EXTENDS Integers, Sequences, FiniteSets, TLC

VARIABLES
  pc,                             \* "new", "ready", "deleted", "done"
  query_,                         \* this.query_
  columns_,                       \* this.columns_
  observableResults_,             \* this.observableResults_
  oldResults,                     \* argument of applyDiff (nullable)
  newResults,                     \* argument of applyDiff
  tieBreak,                       \* LCS backtracking between equal neighbours:
                                  \* "up" drops from array1, "left" from array2
  longestCommonSubsequenceLeft,   \* local of applyDiff
  longestCommonSubsequenceRight,  \* local of applyDiff
  log                             \* the splice calls made on the observed array

vars == <<pc, query_, columns_, observableResults_, oldResults, newResults,
          tieBreak, longestCommonSubsequenceLeft,
          longestCommonSubsequenceRight, log>>

---------------------------------------------------------------------------
(* Bounds of the model. *)

\* Longest result set.
MaxLen == 3

\* Longest explicit column list of a query.
MaxCols == 2

\* Most source tables of a query.
MaxFrom == 2

\* Values of the id field.
Ids == {1, 2}

BoundedSeq(S, n) == UNION {[1..k -> S] : k \in 0..n}

---------------------------------------------------------------------------
(* Schema: columns and tables. *)

\* column.getType()
getType(column) == IF column = "v" THEN "boolean" ELSE "integer"

\* table.getColumns()
getColumns(table) == table.cols

TA == [name |-> "A", cols |-> <<"a", "b">>]

TC == [name |-> "C", cols |-> <<"c">>]

Item == [name |-> "Item", cols |-> <<"id", "v">>]

\* evalRegistry_.getEvaluator(type, lf.eval.Type.EQ)
getEvaluatorEQ(type, l, r) == l = r

---------------------------------------------------------------------------
(* Relations and entries.  An entry is an object: ref is its identity,     *)
(* payload the row's payload object.                                       *)

isNull(x) == x = <<>>

\* entry.getField(column)
getField(entry, column) == entry.payload[column]

\* entry.row.payload()
payload(entry) == entry.payload

Payloads(entries) == [k \in 1..Len(entries) |-> payload(entries[k])]

\* left == right on two object references
SameInstance(l, r) == l.ref = r.ref

Rows == [id : Ids, v : BOOLEAN]

\* A relation whose k-th entry is a fresh object holding rows[k].
Relation(rows, base) ==
  [entries |-> [k \in 1..Len(rows) |-> [ref |-> base + k, payload |-> rows[k]]]]

---------------------------------------------------------------------------
(* Array.prototype.splice(start, deleteCount, ...items) for start >= 0.    *)

Min(a, b) == IF a < b THEN a ELSE b

Max(a, b) == IF a > b THEN a ELSE b

splice(array, start, deleteCount, items) ==
  LET len  == Len(array)
      from == Min(start, len)
      cnt  == Min(deleteCount, len - from)
  IN [removed |-> SubSeq(array, from + 1, from + cnt),
      array   |-> SubSeq(array, 1, from) \o items
                  \o SubSeq(array, from + cnt + 1, len)]

---------------------------------------------------------------------------
(* detectColumns_.  tables is from.slice() with innerJoin pushed when it is *)
(* defined and not null.                                                   *)

\* Faulty variant: the joined table is put before the source tables.
detectColumns_Mutant(query) ==
  IF Len(query.columns) > 0
    THEN query.columns
    ELSE LET tables == IF ~isNull(query.innerJoin)
                         THEN query.innerJoin \o query.from
                         ELSE query.from
             RECURSIVE collect(_)
             collect(k) == IF k = 0 THEN <<>>
                           ELSE collect(k - 1) \o getColumns(tables[k])
         IN collect(Len(tables))

detectColumns_(query) ==
  IF Len(query.columns) > 0
    THEN query.columns
    ELSE LET tables == IF ~isNull(query.innerJoin)
                         THEN query.from \o query.innerJoin
                         ELSE query.from
             RECURSIVE collect(_)
             collect(k) == IF k = 0 THEN <<>>
                           ELSE collect(k - 1) \o getColumns(tables[k])
         IN collect(Len(tables))

---------------------------------------------------------------------------
(* comparator_ *)

\* Faulty variant: the evaluator result is negated (NEQ in place of EQ).
comparator_Mutant(columns, left, right) ==
  \A k \in 1..Len(columns) :
    ~getEvaluatorEQ(getType(columns[k]),
                    getField(left, columns[k]), getField(right, columns[k]))

comparator_(columns, left, right) ==
  \A k \in 1..Len(columns) :
    getEvaluatorEQ(getType(columns[k]),
                   getField(left, columns[k]), getField(right, columns[k]))

---------------------------------------------------------------------------
(* goog.math.longestCommonSubsequence(array1, array2, compare, collect).   *)
(* compare is given as the matrix eq[i, j] = compare(array1[i-1],          *)
(* array2[j-1]); the result is the sequence of matched index pairs, to     *)
(* which the caller applies its collector.  The table arr[i][j] of the     *)
(* lengths over the prefixes is the sequence of its rows, arr[i][j] at     *)
(* [i + 1][j + 1].                                                         *)

\* Row i of the length table, columns 0..j, from the row above it.
RECURSIVE lcsRow(_, _, _, _)
lcsRow(above, eq, i, j) ==
  IF j = 0 THEN <<0>>
  ELSE LET left == lcsRow(above, eq, i, j - 1)
       IN Append(left, IF eq[i, j] THEN above[j] + 1
                       ELSE Max(above[j + 1], left[j]))

\* Rows 0..i of the length table; arr[i][j] is lcsRows(...)[i + 1][j + 1].
RECURSIVE lcsRows(_, _, _)
lcsRows(m, eq, i) ==
  IF i = 0 THEN <<[j \in 1..(m + 1) |-> 0]>>
  ELSE LET rows == lcsRows(m, eq, i - 1)
       IN Append(rows, lcsRow(rows[i], eq, i, m))

lcsTable(n, m, eq) == lcsRows(m, eq, n)

RECURSIVE lcsBacktrack(_, _, _, _, _)
lcsBacktrack(arr, eq, tie, i, j) ==
  IF i = 0 \/ j = 0 THEN <<>>
  ELSE IF eq[i, j]
    THEN Append(lcsBacktrack(arr, eq, tie, i - 1, j - 1), <<i - 1, j - 1>>)
  ELSE IF arr[i][j + 1] > arr[i + 1][j]
          \/ (tie = "up" /\ arr[i][j + 1] = arr[i + 1][j])
    THEN lcsBacktrack(arr, eq, tie, i - 1, j)
  ELSE lcsBacktrack(arr, eq, tie, i, j - 1)

longestCommonSubsequence(n, m, eq, tie) ==
  lcsBacktrack(lcsTable(n, m, eq), eq, tie, n, m)

---------------------------------------------------------------------------
(* applyDiff *)

\* var oldEntries = goog.isNull(oldResults) ? [] : oldResults.entries;
oldEntriesOf(old) == IF isNull(old) THEN <<>> ELSE old[1].entries

\* goog.bind(this.comparator_, this) over (oldEntries, newResults.entries)
EqMatrix(columns, A, B) ==
  [i \in 1..Len(A), j \in 1..Len(B) |-> comparator_(columns, A[i], B[j])]

MatchedPairs(columns, A, B, tie) ==
  longestCommonSubsequence(Len(A), Len(B), EqMatrix(columns, A, B), tie)

\* function(indexLeft, indexRight) { return oldEntries[indexLeft]; }
collectLeft(oldEntries, newEntries, indexLeft, indexRight) ==
  oldEntries[indexLeft + 1]

\* Faulty variant: the new-side collector returns the old-side entry.
collectRightMutant(oldEntries, newEntries, indexLeft, indexRight) ==
  oldEntries[indexLeft + 1]

\* function(indexLeft, indexRight) { return newResults.entries[indexRight]; }
collectRight(oldEntries, newEntries, indexLeft, indexRight) ==
  newEntries[indexRight + 1]

lcsLeft(columns, oldEntries, newEntries, tie) ==
  LET pairs == MatchedPairs(columns, oldEntries, newEntries, tie)
  IN [k \in 1..Len(pairs) |->
        collectLeft(oldEntries, newEntries, pairs[k][1], pairs[k][2])]

lcsRight(columns, oldEntries, newEntries, tie) ==
  LET pairs == MatchedPairs(columns, oldEntries, newEntries, tie)
  IN [k \in 1..Len(pairs) |->
        collectRight(oldEntries, newEntries, pairs[k][1], pairs[k][2])]

\* lcs[commonIndex] == entry  (undefined == entry is false)
isCommon(lcs, commonIndex, entry) ==
  commonIndex < Len(lcs) /\ SameInstance(lcs[commonIndex + 1], entry)

\* Faulty variant: the removal is made one position further, splice(i + 1, 1).
RECURSIVE deletionLoopMutant(_, _, _, _, _, _)
deletionLoopMutant(oldEntries, lcs, i, commonIndex, obs, lg) ==
  IF ~(i < Len(oldEntries)) THEN [array |-> obs, log |-> lg]
  ELSE LET entry == oldEntries[i + 1] IN
    IF isCommon(lcs, commonIndex, entry)
      THEN deletionLoopMutant(oldEntries, lcs, i + 1, commonIndex + 1, obs, lg)
      ELSE LET s == splice(obs, i + 1, 1, <<>>) IN
           deletionLoopMutant(oldEntries, lcs, i + 1, commonIndex, s.array,
             Append(lg, [op |-> "remove", index |-> i + 1, len |-> Len(obs),
                         elems |-> s.removed, entry |-> entry]))

\* for (var i = 0; i < oldEntries.length; i++) { ... splice(i, 1) ... }
\* Each splice call is logged: index and len are its start index and the
\* length of the array before it, elems the elements it removed, entry the
\* entry being visited.
RECURSIVE deletionLoop(_, _, _, _, _, _)
deletionLoop(oldEntries, lcs, i, commonIndex, obs, lg) ==
  IF ~(i < Len(oldEntries)) THEN [array |-> obs, log |-> lg]
  ELSE LET entry == oldEntries[i + 1] IN
    IF isCommon(lcs, commonIndex, entry)
      THEN deletionLoop(oldEntries, lcs, i + 1, commonIndex + 1, obs, lg)
      ELSE LET s == splice(obs, i, 1, <<>>) IN
           deletionLoop(oldEntries, lcs, i + 1, commonIndex, s.array,
             Append(lg, [op |-> "remove", index |-> i, len |-> Len(obs),
                         elems |-> s.removed, entry |-> entry]))

\* Faulty variant: the insertion is made at commonIndex,
\* splice(commonIndex, 0, payload).
RECURSIVE insertionLoopMutant(_, _, _, _, _, _)
insertionLoopMutant(newEntries, lcs, i, commonIndex, obs, lg) ==
  IF ~(i < Len(newEntries)) THEN [array |-> obs, log |-> lg]
  ELSE LET entry == newEntries[i + 1] IN
    IF isCommon(lcs, commonIndex, entry)
      THEN insertionLoopMutant(newEntries, lcs, i + 1, commonIndex + 1, obs, lg)
      ELSE LET s == splice(obs, commonIndex, 0, <<payload(entry)>>) IN
           insertionLoopMutant(newEntries, lcs, i + 1, commonIndex, s.array,
             Append(lg, [op |-> "insert", index |-> commonIndex,
                         len |-> Len(obs),
                         elems |-> <<payload(entry)>>, entry |-> entry]))

\* for (var i = 0; i < newResults.entries.length; i++) { ... splice(i, 0, p) }
RECURSIVE insertionLoop(_, _, _, _, _, _)
insertionLoop(newEntries, lcs, i, commonIndex, obs, lg) ==
  IF ~(i < Len(newEntries)) THEN [array |-> obs, log |-> lg]
  ELSE LET entry == newEntries[i + 1] IN
    IF isCommon(lcs, commonIndex, entry)
      THEN insertionLoop(newEntries, lcs, i + 1, commonIndex + 1, obs, lg)
      ELSE LET s == splice(obs, i, 0, <<payload(entry)>>) IN
           insertionLoop(newEntries, lcs, i + 1, commonIndex, s.array,
             Append(lg, [op |-> "insert", index |-> i, len |-> Len(obs),
                         elems |-> <<payload(entry)>>, entry |-> entry]))

---------------------------------------------------------------------------
(* The state machine: the constructor, then one applyDiff call in its two  *)
(* passes.                                                                 *)

\* Queries over the Item table: an explicit projection of id, or select-all.
ItemQueries ==
  {[columns |-> <<"id">>, from |-> <<Item>>, innerJoin |-> <<>>],
   [columns |-> <<>>,     from |-> <<Item>>, innerJoin |-> <<>>]}

\* Queries over the tables A(a, b) and C(c).
TableQueries ==
  [columns   : BoundedSeq({"a", "b", "c"}, MaxCols),
   from      : BoundedSeq({TA, TC}, MaxFrom) \ {<<>>},
   innerJoin : {<<>>, <<TA>>, <<TC>>}]

InitWith(q, old, new, tie) ==
  /\ pc = "new"
  /\ query_ = q
  /\ columns_ = <<>>
  /\ observableResults_ = Payloads(oldEntriesOf(old))
  /\ oldResults = old
  /\ newResults = new
  /\ tieBreak = tie
  /\ longestCommonSubsequenceLeft = <<>>
  /\ longestCommonSubsequenceRight = <<>>
  /\ log = <<>>

\* Field values are only ever compared for equality, so up to a renaming of
\* the ids and of the values of v the first row of a call is this one.
FirstRow == [id |-> 1, v |-> FALSE]

Canonical(rows) == IF Len(rows) = 0 THEN TRUE ELSE rows[1] = FirstRow

\* The old results are absent or a relation; the new results are the same
\* relation object or a relation of fresh entries.
Init ==
  \E q \in ItemQueries, tie \in {"up", "left"} :
    \E oldRows \in BoundedSeq(Rows, MaxLen), absent \in BOOLEAN :
      \E newRows \in BoundedSeq(Rows, MaxLen), same \in BOOLEAN :
        /\ Canonical(oldRows \o newRows)
        /\ absent => oldRows = <<>> /\ ~same
        /\ same => newRows = oldRows
        /\ LET old == IF absent THEN <<>> ELSE <<Relation(oldRows, 0)>>
               new == IF same THEN old[1] ELSE Relation(newRows, Len(oldRows))
           IN InitWith(q, old, new, tie)

\* lf.DiffCalculator(global, query, observableResults)
Construct ==
  /\ pc = "new"
  /\ columns_' = detectColumns_(query_)
  /\ pc' = "ready"
  /\ UNCHANGED <<query_, observableResults_, oldResults, newResults, tieBreak,
                 longestCommonSubsequenceLeft, longestCommonSubsequenceRight,
                 log>>

\* applyDiff, "Detecting and applying deletions."
ApplyDeletions ==
  /\ pc = "ready"
  /\ LET oldEntries == oldEntriesOf(oldResults)
         lcs == lcsLeft(columns_, oldEntries, newResults.entries, tieBreak)
         r == deletionLoop(oldEntries, lcs, 0, 0, observableResults_, log)
     IN /\ longestCommonSubsequenceLeft' = lcs
        /\ observableResults_' = r.array
        /\ log' = r.log
  /\ pc' = "deleted"
  /\ UNCHANGED <<query_, columns_, oldResults, newResults, tieBreak,
                 longestCommonSubsequenceRight>>

\* applyDiff, "Detecting and applying additions."
ApplyAdditions ==
  /\ pc = "deleted"
  /\ LET oldEntries == oldEntriesOf(oldResults)
         lcs == lcsRight(columns_, oldEntries, newResults.entries, tieBreak)
         r == insertionLoop(newResults.entries, lcs, 0, 0,
                            observableResults_, log)
     IN /\ longestCommonSubsequenceRight' = lcs
        /\ observableResults_' = r.array
        /\ log' = r.log
  /\ pc' = "done"
  /\ UNCHANGED <<query_, columns_, oldResults, newResults, tieBreak,
                 longestCommonSubsequenceLeft>>

Next == Construct \/ ApplyDeletions \/ ApplyAdditions

Spec == Init /\ [][Next]_vars

\* The same machine started on the queries over A(a, b) and C(c), with no
\* old results and an empty new relation.
InitColumns ==
  \E q \in TableQueries, tie \in {"up", "left"} :
    InitWith(q, <<>>, Relation(<<>>, 0), tie)

SpecColumns == InitColumns /\ [][Next]_vars

\* The same machine started on old rows with ids 1, 2, 3 and new rows with
\* ids 1, 3, 4, compared on id; the other field of each row is free.
InitScenario ==
  \E tie \in {"up", "left"} :
    \E ov \in [1..3 -> BOOLEAN], nv \in [1..3 -> BOOLEAN] :
      LET oldIds == <<1, 2, 3>>
          newIds == <<1, 3, 4>>
          oldRows == [k \in 1..3 |-> [id |-> oldIds[k], v |-> ov[k]]]
          newRows == [k \in 1..3 |-> [id |-> newIds[k], v |-> nv[k]]]
      IN InitWith([columns |-> <<"id">>, from |-> <<Item>>, innerJoin |-> <<>>],
                  <<Relation(oldRows, 0)>>, Relation(newRows, 3), tie)

SpecScenario == InitScenario /\ [][Next]_vars

---------------------------------------------------------------------------
(* Vocabulary of the properties. *)

oldE == oldEntriesOf(oldResults)

newE == newResults.entries

\* The entries are pairwise distinct under the comparator.
Distinct(entries) ==
  \A i, j \in 1..Len(entries) :
    i < j => ~comparator_(columns_, entries[i], entries[j])

\* Two payloads agree on the projected columns.
ProjEq(p, q) == \A k \in 1..Len(columns_) : p[columns_[k]] = q[columns_[k]]

\* Length of a longest common subsequence, by exhaustive search: skip the
\* head of A, skip the head of B, or match the two heads.
RECURSIVE MaxCommon(_, _, _, _)
MaxCommon(A, B, i, j) ==
  IF i > Len(A) \/ j > Len(B) THEN 0
  ELSE LET skip == Max(MaxCommon(A, B, i + 1, j), MaxCommon(A, B, i, j + 1))
       IN IF comparator_(columns_, A[i], B[j])
            THEN Max(skip, 1 + MaxCommon(A, B, i + 1, j + 1))
            ELSE skip

LcsLen == MaxCommon(oldE, newE, 1, 1)

\* The splice calls of the log that removed, or inserted, an element.
Removals == {k \in 1..Len(log) : log[k].op = "remove" /\ Len(log[k].elems) = 1}

Insertions == {k \in 1..Len(log) : log[k].op = "insert"}

---------------------------------------------------------------------------
(* Properties. *)

\* C1: when the entries of each result set are pairwise distinct under the
\* comparator, after applyDiff the observed array has the length of the new
\* entries and its k-th element agrees with the k-th new entry's payload on
\* the projected columns.
C1_Convergence ==
  (pc = "done" /\ Distinct(oldE) /\ Distinct(newE)) =>
    /\ Len(observableResults_) = Len(newE)
    /\ \A k \in 1..Len(newE) : ProjEq(observableResults_[k], payload(newE[k]))

\* C2: the number of elements applyDiff removed from the observed array plus
\* the number it inserted is |old| + |new| - 2 * |LCS|.
C2_Minimality ==
  pc = "done" =>
    Cardinality(Removals) + Cardinality(Insertions)
      = Len(oldE) + Len(newE) - 2 * LcsLen

\* C3: when the new results hold the same payloads as the old ones (the same
\* relation among them), applyDiff makes no splice call and the observed
\* array keeps its contents.
C3_Idempotence ==
  (pc \in {"deleted", "done"} /\ Payloads(oldE) = Payloads(newE)) =>
    /\ log = <<>>
    /\ observableResults_ = Payloads(newE)

C3_Witness ==
  /\ pc = "done"
  /\ ~isNull(oldResults)
  /\ newResults = oldResults[1]
  /\ Len(newE) >= 2
  /\ log = <<>>

\* The log of appending every entry's payload, one by one, to an empty array.
AppendLog(entries) ==
  [k \in 1..Len(entries) |->
     [op |-> "insert", index |-> k - 1, len |-> k - 1,
      elems |-> <<payload(entries[k])>>, entry |-> entries[k]]]

\* C4: from an empty observed array, absent old results and an empty old
\* relation give the same splice calls (each new payload inserted at its own
\* position) and the same final array, the new payloads in order.
C4_AbsentOld ==
  (pc = "done" /\ (isNull(oldResults) \/ oldE = <<>>)) =>
    /\ log = AppendLog(newE)
    /\ observableResults_ = Payloads(newE)

C4_Witness ==
  /\ pc = "done"
  /\ isNull(oldResults)
  /\ Len(newE) >= 2
  /\ newE[1].payload /= newE[2].payload
  /\ observableResults_ = Payloads(newE)

\* C5: with old ids 1, 2, 3 and new ids 1, 3, 4 compared on id, applyDiff
\* makes exactly one removal, of the payload with id 2 at position 1, then
\* exactly one insertion, of the payload with id 4 at position 2, the end of
\* the array; the final ids are 1, 3, 4.
C5_Scenario ==
  pc = "done" =>
    /\ Len(log) = 2
    /\ log[1].op = "remove" /\ log[1].index = 1
    /\ log[1].elems = <<payload(oldE[2])>> /\ log[1].elems[1].id = 2
    /\ log[2].op = "insert" /\ log[2].index = 2 /\ log[2].len = 2
    /\ log[2].elems = <<payload(newE[3])>> /\ log[2].elems[1].id = 4
    /\ [k \in 1..Len(observableResults_) |-> observableResults_[k].id]
         = <<1, 3, 4>>

C5_Witness ==
  /\ pc = "done"
  /\ Len(log) = 2
  /\ observableResults_ = <<payload(oldE[1]), payload(oldE[3]), payload(newE[3])>>

\* The tables a select-all query projects: the source tables, then the
\* joined table.
TablesOf(q) ==
  [t \in 1..(Len(q.from) + Len(q.innerJoin)) |->
     IF t <= Len(q.from) THEN q.from[t] ELSE q.innerJoin[1]]

RECURSIVE Offset(_, _)
Offset(tables, t) ==
  IF t = 1 THEN 0 ELSE Offset(tables, t - 1) + Len(tables[t - 1].cols)

\* C6: a non-empty explicit column list is the resolved list; otherwise the
\* c-th column of the t-th table (source tables in order, then the joined
\* table) stands at position c after all columns of the tables before it,
\* and there are no other columns.
C6_Columns ==
  pc /= "new" =>
    IF query_.columns /= <<>>
      THEN columns_ = query_.columns
      ELSE LET tables == TablesOf(query_)
               n == Len(tables)
           IN /\ Len(columns_)
                   = IF n = 0 THEN 0 ELSE Offset(tables, n) + Len(tables[n].cols)
              /\ \A t \in 1..n : \A c \in 1..Len(tables[t].cols) :
                   columns_[Offset(tables, t) + c] = tables[t].cols[c]
              /\ (query_.from = <<TA>> /\ query_.innerJoin = <<TC>>)
                   => columns_ = <<"a", "b", "c">>

C6_Witness ==
  /\ pc = "ready"
  /\ query_ = [columns |-> <<>>, from |-> <<TA>>, innerJoin |-> <<TC>>]
  /\ columns_ = <<"a", "b", "c">>

\* C7: the matched index pairs increase strictly in both indices, each pair
\* is equal under the comparator, their number is the length of a longest
\* common subsequence, the old-side result holds the old entries of the
\* pairs and the new-side result the new entries of the pairs, so both have
\* the same length and are equal under the comparator position by position.
C7_Lcs ==
  pc = "done" =>
    LET pairs == MatchedPairs(columns_, oldE, newE, tieBreak)
        keepOld == longestCommonSubsequenceLeft
        keepNew == longestCommonSubsequenceRight
    IN /\ \A k \in 1..Len(pairs) :
            /\ pairs[k][1] \in 0..(Len(oldE) - 1)
            /\ pairs[k][2] \in 0..(Len(newE) - 1)
            /\ comparator_(columns_, oldE[pairs[k][1] + 1], newE[pairs[k][2] + 1])
            /\ k > 1 => /\ pairs[k - 1][1] < pairs[k][1]
                        /\ pairs[k - 1][2] < pairs[k][2]
       /\ Len(pairs) = LcsLen
       /\ Len(pairs) = lcsTable(Len(oldE), Len(newE),
                                EqMatrix(columns_, oldE, newE))[Len(oldE) + 1][Len(newE) + 1]
       /\ keepOld = [k \in 1..Len(pairs) |-> oldE[pairs[k][1] + 1]]
       /\ keepNew = [k \in 1..Len(pairs) |-> newE[pairs[k][2] + 1]]
       /\ Len(keepOld) = Len(keepNew)
       /\ \A k \in 1..Len(keepOld) : comparator_(columns_, keepOld[k], keepNew[k])

C7_Witness ==
  /\ pc = "done"
  /\ Len(longestCommonSubsequenceLeft) = 2
  /\ Len(oldE) = 3
  /\ Len(newE) = 3
  /\ longestCommonSubsequenceLeft[1] = oldE[2]
  /\ longestCommonSubsequenceRight[1] = newE[1]

\* C8: at the end of the deletion pass the observed array holds exactly the
\* payloads of the kept old entries in order, and every removal removed the
\* payload of the old entry being visited.
C8_DeletionPass ==
  pc = "deleted" =>
    /\ observableResults_ = Payloads(longestCommonSubsequenceLeft)
    /\ \A k \in 1..Len(log) : log[k].elems = <<payload(log[k].entry)>>

\* Old and new have the same length and are equal under the comparator at
\* every position but p.
SingleChange(p) ==
  /\ Len(oldE) = Len(newE)
  /\ p \in 1..Len(oldE)
  /\ \A k \in 1..Len(oldE) :
       comparator_(columns_, oldE[k], newE[k]) <=> k /= p

\* What C9 expects for a change at p: one removal at p, then one insertion at
\* p, every other element left alone.
DeleteThenInsertAt(p) ==
  /\ log = <<[op |-> "remove", index |-> p - 1, len |-> Len(oldE),
              elems |-> <<payload(oldE[p])>>, entry |-> oldE[p]],
             [op |-> "insert", index |-> p - 1, len |-> Len(oldE) - 1,
              elems |-> <<payload(newE[p])>>, entry |-> newE[p]]>>
  /\ observableResults_ =
       [k \in 1..Len(oldE) |->
          IF k = p THEN payload(newE[p]) ELSE payload(oldE[k])]

\* C9 as stated: a change at a single position p is applied as one removal
\* at p followed by one insertion at p.
C9_Original ==
  pc = "done" =>
    \A p \in 1..Len(oldE) : SingleChange(p) => DeleteThenInsertAt(p)

\* C9 amended: the same, when the entries of each result set are pairwise
\* distinct under the comparator.
C9_Amended ==
  (pc = "done" /\ Distinct(oldE) /\ Distinct(newE)) =>
    \A p \in 1..Len(oldE) : SingleChange(p) => DeleteThenInsertAt(p)

C9_Witness ==
  /\ pc = "done"
  /\ Distinct(oldE) /\ Distinct(newE)
  /\ Len(oldE) = 3
  /\ SingleChange(2)
  /\ DeleteThenInsertAt(2)

\* C10: every removal targets an index below the current length of the
\* observed array and every insertion an index at most the current length.
C10_InBounds ==
  \A k \in 1..Len(log) :
    /\ log[k].op = "remove" => log[k].index < log[k].len
    /\ log[k].op = "insert" => log[k].index <= log[k].len

=============================================================================
